---- MODULE Spec2Model ----
(***************************************************************************)
(* A model of rust-mock-server: the schema flattener and value synthesizer *)
(* (components/models/object_reference_handler.rs), the document           *)
(* reconstructor (components/composite_objects.rs), the request validator  *)
(* (components/request_validator.rs) and the request handler (main.rs).    *)
(*                                                                         *)
(* Strings that the code takes apart (flat-table keys) are sequences of    *)
(* tokens: a property name is one token, "." and "$array" are the tokens   *)
(* the code joins with and later splits on.  Property names themselves are *)
(* taken not to contain "." or "$".                                        *)
(***************************************************************************)
EXTENDS Integers, Sequences, FiniteSets, TLC

VARIABLES
    pc,             \* position of the routine the specification runs
    \* get_body_by_object_schema / create_valid_json_from_hashmap
    obj_original,   \* the root schema handed to get_body_by_object_schema
    stack,          \* the work list: a sequence of <<key_prefix, obj>>
    popped,         \* history: the items `stack.pop()` has yielded, in order
    hash_map,       \* the flat table: key -> PropertyValue
    pending,        \* keys of the flat table the reconstruct loop has not visited
    root,           \* the JSON object under reconstruction
    \* get_values_from_property / get_property_value_object
    type_set, example, enum_values,
    boxed,          \* what get_values_from_property returned
    prop_value,     \* the PropertyValue made of it
    \* validate_request
    request_object, \* the synthesized request (the expected body)
    body,           \* the body the caller sent
    outcome,        \* the Result of validate_request
    \* echo
    api_spec,       \* the operations openapi.yaml declares
    req,            \* the incoming request
    paths,          \* the Vec<Path> built from the spec
    cursor,         \* the index of `for p in paths.iter()`
    response        \* the reply

vars == <<pc, obj_original, stack, popped, hash_map, pending, root,
          type_set, example, enum_values, boxed, prop_value,
          request_object, body, outcome, api_spec, req, paths, cursor, response>>

flattenVars == <<obj_original, stack, popped, hash_map, pending, root>>
synthVars == <<type_set, example, enum_values, boxed, prop_value>>
validateVars == <<request_object, body, outcome>>
echoVars == <<api_spec, req, paths, cursor, response>>

\* the value of a variable the running specification does not use
Idle == "idle"
IdleFlatten ==
    /\ obj_original = Idle /\ stack = Idle /\ popped = Idle /\ hash_map = Idle
    /\ pending = Idle /\ root = Idle
IdleSynth ==
    /\ type_set = Idle /\ example = Idle /\ enum_values = Idle
    /\ boxed = Idle /\ prop_value = Idle
IdleValidate == request_object = Idle /\ body = Idle /\ outcome = Idle
IdleEcho ==
    /\ api_spec = Idle /\ req = Idle /\ paths = Idle
    /\ cursor = Idle /\ response = Idle

(***************************************************************************)
(* Bounds.                                                                 *)
(***************************************************************************)
\* longest enumeration list
MaxEnumLen == 3

(***************************************************************************)
(* Option, and the outcome of a routine that may panic.                    *)
(***************************************************************************)
None == [some |-> FALSE]
Some(x) == [some |-> TRUE, v |-> x]
Panic == [panic |-> TRUE]
Ok(x) == [panic |-> FALSE, v |-> x]

(***************************************************************************)
(* serde_json::Value.  Scalars carry their literal as a string.            *)
(***************************************************************************)
JString(s) == [t |-> "string", v |-> s]
JNumber(n) == [t |-> "number", v |-> n]
JBool(b) == [t |-> "bool", v |-> b]
JObject(m) == [t |-> "object", m |-> m]
JArray(a) == [t |-> "array", a |-> a]
EmptyMap == [k \in {} |-> None]

(***************************************************************************)
(* oas3::spec::SchemaTypeSet: Single(tag) or Multiple(tags).               *)
(***************************************************************************)
Single(tag) == [single |-> TRUE, tags |-> {tag}]
Multiple(tags) == [single |-> FALSE, tags |-> tags]
contains(ts, tag) == tag \in ts.tags
is_array_or_nullable_array(ts) == "array" \in ts.tags /\ ts.tags \subseteq {"array", "null"}

(***************************************************************************)
(* Box<dyn Any>: a value together with its concrete type.                  *)
(***************************************************************************)
Box(ty, v) == [ty |-> ty, v |-> v]

\* a draw from the inclusive range lo..=hi
gen_range_inclusive(lo, hi, entropy) ==
    IF lo > hi THEN Panic ELSE Ok(lo + (entropy % (hi - lo + 1)))

\* rng.gen_range(lo..hi): panics on an empty range, else a draw decided by the entropy
gen_range(lo, hi, entropy) ==
    IF lo >= hi THEN Panic ELSE Ok(lo + (entropy % (hi - lo)))

\* an untyped float literal is an f64, an untyped integer literal an i32
get_values_from_property(ts, ex, enums, entropy) ==
    IF ex.some THEN Ok(Some(Box("Value", ex.v)))
    ELSE IF Len(enums) # 0
    THEN LET random == gen_range(0, Len(enums) - 1, entropy)
         IN  IF random.panic THEN Panic
             ELSE Ok(Some(Box("String", enums[random.v + 1])))
    ELSE IF ts = Single("boolean") THEN Ok(Some(Box("bool", "true")))
    ELSE IF ts = Single("string") THEN Ok(Some(Box("String", "asd")))
    ELSE IF ts = Single("number") THEN Ok(Some(Box("f64", "1.2")))
    ELSE IF ts = Single("integer") THEN Ok(Some(Box("i32", "1")))
    ELSE Ok(None)

PropertyValue(b, i, n, s, sv) ==
    [bool |-> b, int |-> i, number |-> n, string |-> s, serde_value |-> sv]

get_property_value_object(value) ==
    IF value.ty = "String" THEN PropertyValue(None, None, None, Some(value.v), None)
    ELSE IF value.ty = "i32" THEN PropertyValue(None, Some(value.v), None, None, None)
    ELSE IF value.ty = "f32" THEN PropertyValue(None, None, Some(value.v), None, None)
    ELSE IF value.ty = "bool" THEN PropertyValue(Some(value.v), None, None, None, None)
    ELSE IF value.ty = "Value" THEN PropertyValue(None, None, None, None, Some(value.v))
    ELSE PropertyValue(None, None, None, Some("Unknown"), None)

\* impl Serialize for PropertyValue, through serde_json::to_value
serialize(pv) ==
    IF pv.bool.some THEN JBool(pv.bool.v)
    ELSE IF pv.number.some THEN JNumber(pv.number.v)
    ELSE IF pv.int.some THEN JNumber(pv.int.v)
    ELSE IF pv.string.some THEN JString(pv.string.v)
    ELSE IF pv.serde_value.some THEN pv.serde_value.v
    ELSE JString("")

(***************************************************************************)
(* oas3::spec::ObjectSchema, and ObjectOrReference: a property or an item  *)
(* is an inline schema or a $ref, and a $ref may fail to resolve.          *)
(***************************************************************************)
ObjectSchema(ts, props, reqd, ex, enums, items) ==
    [schema_type |-> ts, properties |-> props, required |-> reqd,
     example |-> ex, enum_values |-> enums, items |-> items]
Resolvable(obj) == [ok |-> TRUE, obj |-> obj]
Dangling == [ok |-> FALSE]

\* property names, and the order a BTreeMap iterates them in
NameOrder == <<"a", "b">>
Names == {NameOrder[i] : i \in 1..Len(NameOrder)}

DOT == "."
ARRAY == "$array"

is_single_property(object_schema) ==
    LET schema_type == object_schema.schema_type.v
    IN  \/ contains(schema_type, "string")
        \/ contains(schema_type, "integer")
        \/ contains(schema_type, "number")
        \/ contains(schema_type, "boolean")

\* HashMap::insert: the last writer wins
insert(map, key, value) == (key :> value) @@ map

\* what one iteration of the while loop leaves behind
LoopState(m, s) == [panic |-> FALSE, hash_map |-> m, stack |-> s]

\* lines 24-49: a popped node without properties
NoProperties(key_prefix, obj, m, s, entropy) ==
    IF ~obj.schema_type.some THEN Panic
    ELSE LET single == is_single_property(obj)
             got == get_values_from_property(obj.schema_type.v, obj.example,
                                             obj.enum_values, entropy)
         IN  IF single /\ (got.panic \/ ~got.v.some) THEN Panic
             ELSE LET m1 == IF single
                            THEN insert(m, key_prefix, get_property_value_object(got.v.v))
                            ELSE m
                  IN  IF is_array_or_nullable_array(obj.schema_type.v) /\ obj.items.some
                      THEN IF ~obj.items.v.ok THEN Panic
                           ELSE LoopState(m1, Append(s, <<Append(key_prefix, ARRAY),
                                                          obj.items.v.obj>>))
                      ELSE LoopState(m1, s)

\* every declared property taken as required
is_required_always(obj, k) == TRUE

\* line 54: only the parent's required set decides
is_required(obj, k) == k \in obj.required

\* lines 53-73: the body of the for loop, for property k
VisitProperty(k, key_prefix, obj, st, entropy) ==
    LET v == obj.properties[k]
    IN  IF ~v.ok THEN Panic
        ELSE IF ~is_required(obj, k) THEN st
        ELSE LET property_object == v.obj
                 full_key == IF key_prefix = <<>> THEN <<k>>
                             ELSE key_prefix \o <<DOT, k>>
             IN  IF ~property_object.schema_type.some THEN Panic
                 ELSE IF is_single_property(property_object)
                 THEN LET got == get_values_from_property(
                                     property_object.schema_type.v,
                                     property_object.example, obj.enum_values, entropy)
                      IN  IF got.panic THEN Panic
                          ELSE IF got.v.some
                          THEN [st EXCEPT !.hash_map =
                                   insert(@, full_key, get_property_value_object(got.v.v))]
                          ELSE st
                 ELSE [st EXCEPT !.stack = Append(@, <<full_key, property_object>>)]

\* lines 52-74: the for loop, from the i-th property name on
RECURSIVE ForProperties(_, _, _, _, _)
ForProperties(i, key_prefix, obj, st, entropy) ==
    IF st.panic \/ i > Len(NameOrder) THEN st
    ELSE IF NameOrder[i] \notin DOMAIN obj.properties
    THEN ForProperties(i + 1, key_prefix, obj, st, entropy)
    ELSE ForProperties(i + 1, key_prefix, obj,
                       VisitProperty(NameOrder[i], key_prefix, obj, st, entropy[NameOrder[i]]),
                       entropy)

\* lines 20-75: one iteration of the while loop, the popped item being stack's last
LoopBody(m, s, entropy) ==
    LET key_prefix == s[Len(s)][1]
        obj == s[Len(s)][2]
        rest == SubSeq(s, 1, Len(s) - 1)
    IN  IF DOMAIN obj.properties = {}
        THEN NoProperties(key_prefix, obj, m, rest, entropy[NameOrder[1]])
        ELSE ForProperties(1, key_prefix, obj, LoopState(m, rest), entropy)

(***************************************************************************)
(* The document reconstructor (composite_objects.rs).                      *)
(***************************************************************************)
HasDot(key) == \E i \in 1..Len(key) : key[i] = DOT
FirstDot(key) == CHOOSE i \in 1..Len(key) :
                     key[i] = DOT /\ \A j \in 1..(i - 1) : key[j] # DOT

\* key.split('.'): a key without "." is one segment, the empty key included
RECURSIVE split_dot(_)
split_dot(key) ==
    IF HasDot(key)
    THEN <<SubSeq(key, 1, FirstDot(key) - 1)>>
             \o split_dot(SubSeq(key, FirstDot(key) + 1, Len(key)))
    ELSE <<key>>

ends_with_array(segment) == Len(segment) > 0 /\ segment[Len(segment)] = ARRAY

\* segment.split("$").next(): the text before the first "$"
before_dollar(segment) ==
    LET first == CHOOSE i \in 1..Len(segment) :
                     segment[i] = ARRAY /\ \A j \in 1..(i - 1) : segment[j] # ARRAY
    IN  SubSeq(segment, 1, first - 1)

\* an insert of the default over whatever is there
entry_always_default(root_map, key, default) == default

\* root_map.entry(key).or_insert_with(default): the entry there, else the default
entry_or_insert_with(root_map, key, default) ==
    IF key \in DOMAIN root_map THEN root_map[key] ELSE default

RECURSIVE insert_nested_value(_, _, _)
insert_nested_value(root_map, keys, value) ==
    LET is_array == ends_with_array(keys[1])
        key == IF is_array THEN before_dollar(keys[1]) ELSE keys[1]
    IN  IF Len(keys) = 1
        THEN Ok(insert(root_map, key, serialize(value)))
        ELSE IF is_array
        THEN LET entry == entry_or_insert_with(root_map, key,
                                               JArray(<<JObject(EmptyMap)>>))
             IN  IF entry.t # "array" THEN Panic
                 ELSE IF Len(entry.a) = 0 THEN Panic
                 ELSE IF entry.a[1].t = "object"
                 THEN LET x == insert_nested_value(entry.a[1].m, Tail(keys), value)
                      IN  IF x.panic THEN Panic
                          ELSE Ok(insert(root_map, key,
                                         JArray([entry.a EXCEPT ![1] = JObject(x.v)])))
                 ELSE Ok(insert(root_map, key, entry))
        ELSE LET entry == entry_or_insert_with(root_map, key, JObject(EmptyMap))
             IN  IF entry.t = "object"
                 THEN LET nested_map == insert_nested_value(entry.m, Tail(keys), value)
                      IN  IF nested_map.panic THEN Panic
                          ELSE Ok(insert(root_map, key, JObject(nested_map.v)))
                 ELSE Ok(insert(root_map, key, entry))

(***************************************************************************)
(* The schemas get_body_by_object_schema is run on.                        *)
(***************************************************************************)
Leaf(ts, ex, enums) == ObjectSchema(Some(ts), EmptyMap, {}, ex, enums, None)
ArrayOf(items) == ObjectSchema(Some(Single("array")), EmptyMap, {}, None, <<>>, items)
ObjectOf(props, reqd, enums) ==
    ObjectSchema(Some(Single("object")), props, reqd, None, enums, None)
NoTypeTag == ObjectSchema(None, EmptyMap, {}, None, <<>>, None)
PropertyMaps(children) == UNION {[d -> children] : d \in SUBSET Names}
Refs(nodes) == {Resolvable(n) : n \in nodes}

IntLeaf == Leaf(Single("integer"), None, <<>>)

\* nested schemas: objects in objects, arrays of objects, arrays of arrays
InnerObjects == {ObjectOf(p, r, <<>>) : p \in PropertyMaps(Refs({IntLeaf})), r \in SUBSET Names}
InnerNodes == {IntLeaf, ArrayOf(Some(Resolvable(IntLeaf)))} \cup InnerObjects
                  \cup {ArrayOf(Some(Resolvable(o))) : o \in InnerObjects}
NestedSchemas ==
    {ObjectOf(p, r, <<>>) : p \in PropertyMaps(Refs(InnerNodes)), r \in SUBSET Names}
        \cup {ArrayOf(Some(Resolvable(n))) : n \in InnerNodes}

\* flat schemas: every kind of leaf, example, enumeration list and broken reference
EnumLists == {[i \in 1..n |-> "e" \o ToString(i)] : n \in 0..MaxEnumLen}
ScalarTypeSets == {Single("string"), Single("integer"), Single("number"),
                   Single("boolean"), Multiple({"string", "null"})}
Examples == {None, Some(JString("ex"))}
ScalarLeaves == {Leaf(ts, ex, e) : ts \in ScalarTypeSets, ex \in Examples, e \in EnumLists}
PlainLeaves == {Leaf(ts, None, <<>>) : ts \in ScalarTypeSets \cup {Single("object")}}
                   \cup {Leaf(Single("string"), Some(JString("ex")), <<>>), NoTypeTag}
LeafRefs == Refs(PlainLeaves) \cup {Dangling}
FlatSchemas ==
    {ObjectOf(p, r, e) : p \in PropertyMaps(LeafRefs), r \in SUBSET Names, e \in EnumLists}
        \cup ScalarLeaves
        \cup {ArrayOf(Some(Resolvable(l))) : l \in ScalarLeaves}
        \cup {ArrayOf(None), ArrayOf(Some(Dangling)), NoTypeTag}

Schemas == NestedSchemas \cup FlatSchemas

\* what the random source may yield for one draw
Entropy == 0..(MaxEnumLen - 1)

(***************************************************************************)
(* SpecFlatten: create_{request,response}_object_by_object_schema, that is *)
(* get_body_by_object_schema followed by create_valid_json_from_hashmap.   *)
(***************************************************************************)
InitFlatten ==
    /\ pc = "loop"
    /\ obj_original \in Schemas
    /\ stack = <<<< <<>>, obj_original >>>>
    /\ popped = <<>>
    /\ hash_map = EmptyMap
    /\ pending = {}
    /\ root = EmptyMap
    /\ IdleSynth /\ IdleValidate /\ IdleEcho

\* one iteration of the while loop; a panic unwinds and drops the locals
FlattenStep ==
    /\ pc = "loop"
    /\ stack # <<>>
    /\ \E entropy \in [Names -> Entropy] :
          LET st == LoopBody(hash_map, stack, entropy)
          IN  IF st.panic
              THEN pc' = "panicked" /\ stack' = <<>> /\ hash_map' = EmptyMap
              ELSE pc' = pc /\ stack' = st.stack /\ hash_map' = st.hash_map
    /\ popped' = Append(popped, stack[Len(stack)])
    /\ UNCHANGED <<obj_original, pending, root, synthVars, validateVars, echoVars>>

\* the work list is empty: hash_map is returned and the reconstruct loop starts
FlattenReturn ==
    /\ pc = "loop"
    /\ stack = <<>>
    /\ pc' = "reconstruct"
    /\ pending' = DOMAIN hash_map
    /\ root' = EmptyMap
    /\ UNCHANGED <<obj_original, stack, popped, hash_map, synthVars, validateVars, echoVars>>

\* one iteration of `for (key, value) in map`; a HashMap iterates in any order
ReconstructInsert ==
    /\ pc = "reconstruct"
    /\ \E key \in pending :
          LET r == insert_nested_value(root, split_dot(key), hash_map[key])
          IN  IF r.panic
              THEN pc' = "panicked" /\ root' = EmptyMap /\ pending' = {}
              ELSE pc' = pc /\ root' = r.v /\ pending' = pending \ {key}
    /\ UNCHANGED <<obj_original, stack, popped, hash_map, synthVars, validateVars, echoVars>>

ReconstructReturn ==
    /\ pc = "reconstruct"
    /\ pending = {}
    /\ pc' = "done"
    /\ UNCHANGED <<flattenVars, synthVars, validateVars, echoVars>>

NextFlatten == FlattenStep \/ FlattenReturn \/ ReconstructInsert \/ ReconstructReturn

SpecFlatten == InitFlatten /\ [][NextFlatten]_vars

(***************************************************************************)
(* What the schema itself says, by recursion over the schema tree.         *)
(***************************************************************************)
HasScalarType(node) ==
    /\ node.schema_type.some
    /\ node.schema_type.v.tags \cap {"string", "integer", "number", "boolean"} # {}
IsArrayNode(node) ==
    /\ node.schema_type.some
    /\ "array" \in node.schema_type.v.tags
    /\ node.items.some
    /\ node.items.v.ok
JoinKey(prefix, k) == IF prefix = <<>> THEN <<k>> ELSE prefix \o <<DOT, k>>
RequiredProps(node) ==
    {k \in DOMAIN node.properties : k \in node.required /\ node.properties[k].ok}

\* the keys of the scalar leaves reached through required properties and array items
RECURSIVE RequiredLeafKeys(_, _)
RequiredLeafKeys(prefix, node) ==
    IF HasScalarType(node) THEN {prefix}
    ELSE IF DOMAIN node.properties # {}
    THEN UNION {RequiredLeafKeys(JoinKey(prefix, k), node.properties[k].obj) :
                    k \in RequiredProps(node)}
    ELSE IF IsArrayNode(node)
    THEN RequiredLeafKeys(Append(prefix, ARRAY), node.items.v.obj)
    ELSE {}

\* the paths of all nodes reached through required properties and array items
RECURSIVE RequiredChainPaths(_, _)
RequiredChainPaths(prefix, node) ==
    {prefix} \cup
    IF DOMAIN node.properties # {}
    THEN UNION {RequiredChainPaths(JoinKey(prefix, k), node.properties[k].obj) :
                    k \in RequiredProps(node)}
    ELSE IF IsArrayNode(node)
    THEN RequiredChainPaths(Append(prefix, ARRAY), node.items.v.obj)
    ELSE {}

Returned == pc \in {"reconstruct", "done"}

\* C1: when get_body_by_object_schema returns, the flat table has exactly one entry
\* for every scalar leaf (nullable-qualified ones included) that is reached from the
\* root through required properties and array items.
C1_EveryRequiredLeafHasAnEntry ==
    Returned => DOMAIN hash_map = RequiredLeafKeys(<<>>, obj_original)

\* C2: at every point of the traversal, every key of the flat table and every prefix
\* on the work list is the path of a node reached through required properties only:
\* a property outside its parent's required set is neither emitted nor pushed.
C2_OnlyRequiredChains ==
    pc \in {"loop", "reconstruct", "done"} =>
        /\ DOMAIN hash_map \subseteq RequiredChainPaths(<<>>, obj_original)
        /\ \A i \in 1..Len(stack) :
               stack[i][1] \in RequiredChainPaths(<<>>, obj_original)

\* C2's case: the root has a non-required property that is an object or an array of
\* objects whose own children are required, and the traversal has finished.
HasRequiredChildren(node) ==
    \/ DOMAIN node.properties # {} /\ DOMAIN node.properties \subseteq node.required
    \/ /\ IsArrayNode(node)
       /\ DOMAIN node.items.v.obj.properties # {}
       /\ DOMAIN node.items.v.obj.properties \subseteq node.items.v.obj.required
C2_Witness ==
    /\ pc = "done"
    /\ \E k \in DOMAIN obj_original.properties :
          /\ k \notin obj_original.required
          /\ obj_original.properties[k].ok
          /\ HasRequiredChildren(obj_original.properties[k].obj)
    /\ hash_map # EmptyMap

(***************************************************************************)
(* The shape of the reconstructed document against the schema.             *)
(***************************************************************************)
\* value sits where the schema has node: an array node holds a one-element array
RECURSIVE ArraysAreArrays(_, _)
ArraysAreArrays(value, node) ==
    IF DOMAIN node.properties # {}
    THEN /\ value.t = "object"
         /\ \A k \in RequiredProps(node) :
                <<k>> \in DOMAIN value.m =>
                    ArraysAreArrays(value.m[<<k>>], node.properties[k].obj)
    ELSE IF IsArrayNode(node)
    THEN /\ value.t = "array"
         /\ Len(value.a) = 1
         /\ ArraysAreArrays(value.a[1], node.items.v.obj)
    ELSE TRUE

\* C3: in the finished document, wherever a key of an array-typed schema node is
\* present (the root's key being ""), it holds a JSON array of exactly one element,
\* whether the items are objects or scalars.
C3_ArrayNodesHoldOneElementArrays ==
    pc = "done" =>
        IF DOMAIN obj_original.properties # {}
        THEN ArraysAreArrays(JObject(root), obj_original)
        ELSE <<>> \in DOMAIN root => ArraysAreArrays(root[<<>>], obj_original)

\* every array of the document holds exactly one element, an object
RECURSIVE AllArraysSingle(_)
AllArraysSingle(value) ==
    IF value.t = "array"
    THEN /\ Len(value.a) = 1
         /\ value.a[1].t = "object"
         /\ AllArraysSingle(value.a[1])
    ELSE IF value.t = "object"
    THEN \A k \in DOMAIN value.m : AllArraysSingle(value.m[k])
    ELSE TRUE

SegmentName(segment) ==
    IF ends_with_array(segment) THEN before_dollar(segment) ELSE segment

\* the value the document holds for a key, descending through the one element of
\* every array-marked segment
RECURSIVE Lookup(_, _)
Lookup(map, keys) ==
    LET key == SegmentName(keys[1])
    IN  IF key \notin DOMAIN map THEN None
        ELSE IF Len(keys) = 1 THEN Some(map[key])
        ELSE IF ends_with_array(keys[1])
        THEN IF map[key].t = "array" /\ Len(map[key].a) = 1 /\ map[key].a[1].t = "object"
             THEN Lookup(map[key].a[1].m, Tail(keys))
             ELSE None
        ELSE IF map[key].t = "object" THEN Lookup(map[key].m, Tail(keys))
        ELSE None

\* C10: after each insertion of the reconstruct loop, in whatever order the keys come,
\* every array of the document holds exactly one element, and every key inserted so
\* far still has its leaf in the document, reached through that one element: leaves
\* under the same array item are merged into it and none is lost.
C10_ArraysStaySingleAndSiblingsMerge ==
    pc \in {"reconstruct", "done"} =>
        /\ AllArraysSingle(JObject(root))
        /\ \A key \in DOMAIN hash_map \ pending :
               Lookup(root, split_dot(key)) = Some(serialize(hash_map[key]))

\* C10's case: two keys through the same array-marked segment have both been inserted
C10_Witness ==
    /\ pc = "reconstruct"
    /\ \E k1, k2 \in DOMAIN hash_map \ pending :
          /\ k1 # k2
          /\ Len(split_dot(k1)) > 1
          /\ Len(split_dot(k2)) > 1
          /\ split_dot(k1)[1] = split_dot(k2)[1]
          /\ ends_with_array(split_dot(k1)[1])
          /\ Len(split_dot(k1)[1]) > 1

\* the work items a schema gives rise to: the root, every required property that is
\* not scalar, and the item of every array node without properties
RECURSIVE WorkItems(_, _)
WorkItems(prefix, node) ==
    {<<prefix, node>>} \cup
    IF DOMAIN node.properties # {}
    THEN UNION {WorkItems(JoinKey(prefix, k), node.properties[k].obj) :
                    k \in {q \in RequiredProps(node) :
                              ~HasScalarType(node.properties[q].obj)}}
    ELSE IF IsArrayNode(node)
    THEN WorkItems(Append(prefix, ARRAY), node.items.v.obj)
    ELSE {}

IsPrefix(p, key) == Len(p) <= Len(key) /\ SubSeq(key, 1, Len(p)) = p
NeitherScalarNorArray(node) ==
    /\ DOMAIN node.properties = {}
    /\ ~HasScalarType(node)
    /\ node.schema_type.some => "array" \notin node.schema_type.v.tags
\* the while loop was left by a panic and not by the work list running empty
LoopPanicked == pc = "panicked" /\ hash_map = EmptyMap

\* what C11 says of the items popped so far: none twice, none but the schema's work
\* items, all of them once the loop is over, and nothing under a skipped node
PoppedOnceEach ==
    /\ \A i, j \in 1..Len(popped) : popped[i] = popped[j] => i = j
    /\ \A i \in 1..Len(popped) : popped[i] \in WorkItems(<<>>, obj_original)
    /\ Returned =>
           /\ stack = <<>>
           /\ {popped[i] : i \in 1..Len(popped)} = WorkItems(<<>>, obj_original)
SkippedNodesAddNothing ==
    \A i \in 1..Len(popped) :
        NeitherScalarNorArray(popped[i][2]) =>
            /\ \A key \in DOMAIN hash_map : ~IsPrefix(popped[i][1], key)
            /\ \A j \in 1..Len(stack) : ~IsPrefix(popped[i][1], stack[j][1])

\* C11: on every finite schema without a cycle the work-list loop terminates by
\* returning the flat table: the loop is never left otherwise, every work item of
\* the schema is popped exactly once (so the pops are bounded), the work list is
\* empty at the return, and a popped node without properties that is neither scalar
\* nor array adds no entry and no work item.
C11_WorkListRunsEmptyAndReturns ==
    /\ ~LoopPanicked
    /\ PoppedOnceEach
    /\ SkippedNodesAddNothing

\* C11 but for the panics: what holds on every run, the ones a panic ends included
C11_PopsOnceEachUnlessPanicked ==
    /\ PoppedOnceEach
    /\ SkippedNodesAddNothing
    /\ LoopPanicked => stack = <<>>

(***************************************************************************)
(* SpecSynth: the value synthesizer on its own, get_values_from_property   *)
(* followed by get_property_value_object as at lines 26-34 and 65-68.      *)
(***************************************************************************)
TypeSets == ScalarTypeSets \cup {Single("object"), Single("array"), Single("null"),
                                 Multiple({"integer", "null"})}
SynthExamples == Examples \cup {Some(JObject((<<"a">> :> JNumber("7"))))}

InitSynth ==
    /\ pc = "call"
    /\ type_set \in TypeSets
    /\ example \in SynthExamples
    /\ enum_values \in EnumLists
    /\ boxed = None
    /\ prop_value = None
    /\ IdleFlatten /\ IdleValidate /\ IdleEcho

\* the call of get_values_from_property: a value, None, or a panic in gen_range
GetValues ==
    /\ pc = "call"
    /\ \E entropy \in Entropy :
          LET got == get_values_from_property(type_set, example, enum_values, entropy)
          IN  IF got.panic
              THEN pc' = "panicked" /\ boxed' = None
              ELSE pc' = "returned" /\ boxed' = got.v
    /\ UNCHANGED <<type_set, example, enum_values, prop_value,
                   flattenVars, validateVars, echoVars>>

\* the call of get_property_value_object on the returned value
GetPropertyValueObject ==
    /\ pc = "returned"
    /\ boxed.some
    /\ prop_value' = Some(get_property_value_object(boxed.v))
    /\ pc' = "done"
    /\ UNCHANGED <<type_set, example, enum_values, boxed,
                   flattenVars, validateVars, echoVars>>

NextSynth == GetValues \/ GetPropertyValueObject

SpecSynth == InitSynth /\ [][NextSynth]_vars

\* C4: with no example and a non-empty enumeration list, a list of two or more
\* entries yields an entry at an index in [0, length-1), never the last one, whatever
\* the draw; a list of exactly one entry makes the call fail: it panics, returns no
\* value and does not fall back to the type's default.
C4_EnumNeverLastAndSingleFails ==
    (pc # "call" /\ ~example.some /\ Len(enum_values) >= 1) =>
        IF Len(enum_values) = 1
        THEN pc = "panicked" /\ boxed = None /\ prop_value = None
        ELSE /\ pc \in {"returned", "done"}
             /\ \E i \in 1..(Len(enum_values) - 1) :
                    boxed = Some(Box("String", enum_values[i]))
             /\ boxed # Some(Box("String", enum_values[Len(enum_values)]))

\* C4's case: the longest list, and the draw of the last index of the range
C4_Witness ==
    /\ pc = "returned"
    /\ ~example.some
    /\ Len(enum_values) = MaxEnumLen
    /\ boxed = Some(Box("String", enum_values[MaxEnumLen - 1]))

\* C4's other case: the single-entry list has been tried
C4_WitnessSingle ==
    pc = "panicked" /\ ~example.some /\ Len(enum_values) = 1

\* the variant, the literal and the JSON kind the type tag calls for
ExpectedVariant(tag) ==
    IF tag = "string" THEN PropertyValue(None, None, None, Some("asd"), None)
    ELSE IF tag = "number" THEN PropertyValue(None, None, Some("1.2"), None, None)
    ELSE IF tag = "integer" THEN PropertyValue(None, Some("1"), None, None, None)
    ELSE PropertyValue(Some("true"), None, None, None, None)
ExpectedKind(tag) ==
    IF tag = "string" THEN "string"
    ELSE IF tag \in {"number", "integer"} THEN "number"
    ELSE "bool"

\* C5: with no example and an empty enumeration list, a leaf of type string, number,
\* integer or boolean is synthesized as the variant of that type holding the fixed
\* literal, no other variant is set, and it serializes to that JSON kind.
C5_VariantMatchesTypeTag ==
    (pc = "done" /\ ~example.some /\ enum_values = <<>>) =>
        \A tag \in {"string", "number", "integer", "boolean"} :
            type_set = Single(tag) =>
                /\ prop_value = Some(ExpectedVariant(tag))
                /\ serialize(prop_value.v).t = ExpectedKind(tag)

(***************************************************************************)
(* The body validator (request_validator.rs) over serde_json_diff.         *)
(* serde_json_diff::values(lhs, rhs) reports an entry of rhs that lhs      *)
(* lacks as Missing (with its value), an entry of lhs that rhs lacks as    *)
(* Extra, and an entry of both whose values differ as Value.               *)
(***************************************************************************)
\* the order a serde_json Map iterates its keys in
KeyOrder == << <<>> >> \o [i \in 1..Len(NameOrder) |-> <<NameOrder[i]>>]
SortedKeys(m) == SelectSeq(KeyOrder, LAMBDA k : k \in DOMAIN m)

RECURSIVE values(_, _)
RECURSIVE lhs_entries(_, _, _)
lhs_entries(keys, lhs, rhs) ==
    IF keys = <<>> THEN <<>>
    ELSE LET k == Head(keys)
             rest == lhs_entries(Tail(keys), lhs, rhs)
         IN  IF k \notin DOMAIN rhs
             THEN << <<k, [kind |-> "extra"]>> >> \o rest
             ELSE LET d == values(lhs[k], rhs[k])
                  IN  IF d.some
                      THEN << <<k, [kind |-> "value", value_diff |-> d.v]>> >> \o rest
                      ELSE rest

rhs_entries(lhs, rhs) ==
    LET only == SelectSeq(SortedKeys(rhs), LAMBDA k : k \notin DOMAIN lhs)
    IN  [i \in 1..Len(only) |-> <<only[i], [kind |-> "missing", value |-> rhs[only[i]]]>>]

values(lhs, rhs) ==
    IF lhs = rhs THEN None
    ELSE IF lhs.t = "object" /\ rhs.t = "object"
    THEN Some([kind |-> "object",
               different_entries |->
                   lhs_entries(SortedKeys(lhs.m), lhs.m, rhs.m) \o rhs_entries(lhs.m, rhs.m)])
    ELSE IF lhs.t = "array" /\ rhs.t = "array" THEN Some([kind |-> "array"])
    ELSE IF lhs.t = rhs.t THEN Some([kind |-> "scalar"])
    ELSE Some([kind |-> "type"])

RECURSIVE check_difference(_, _)
RECURSIVE check_entries(_, _)
check_entries(entries, missing_keys) ==
    IF entries = <<>> THEN missing_keys
    ELSE LET key == Head(entries)[1]
             entry == Head(entries)[2]
         IN  check_entries(Tail(entries),
                 IF entry.kind = "missing" THEN Append(missing_keys, key)
                 ELSE IF entry.kind = "value" /\ entry.value_diff.kind = "object"
                 THEN check_difference(entry.value_diff, missing_keys)
                 ELSE missing_keys)

check_difference(diff, missing_keys) ==
    IF diff.kind = "object"
    THEN check_entries(diff.different_entries, missing_keys)
    ELSE missing_keys

\* missing_keys.join(", ")
RECURSIVE join(_)
join(keys) ==
    IF keys = <<>> THEN <<>>
    ELSE IF Len(keys) = 1 THEN keys[1]
    ELSE keys[1] \o <<", ">> \o join(Tail(keys))

\* a request body is text: not JSON at all, or the text of a JSON value
NotJson == [t |-> "not json"]
from_str(text) == IF text = NotJson THEN Panic ELSE Ok(text)

\* the diff with the expected body on the left
diff_swapped(obj, obj2) == values(obj2, obj)

\* line 20: the caller's body on the left, the expected body on the right
diff_of_bodies(obj, obj2) == values(obj, obj2)

ValidationOk == [ok |-> TRUE]
ValidationError(message) == [ok |-> FALSE, error_message |-> message]

validate_request(request, text) ==
    LET parsed == from_str(text)
    IN  IF parsed.panic THEN Panic
        ELSE IF parsed.v.t # "object" THEN Panic
        ELSE IF ~request.body.some THEN Panic
        ELSE LET diff == diff_of_bodies(parsed.v, request.body.v)
                 missing_keys == IF diff.some THEN check_difference(diff.v, <<>>) ELSE <<>>
             IN  IF Len(missing_keys) > 0
                 THEN Ok(ValidationError(<<"Missing keys: ">> \o join(missing_keys)))
                 ELSE Ok(ValidationOk)

(***************************************************************************)
(* SpecValidate: validate_request on an expected and an actual body.       *)
(***************************************************************************)
JsonKeys == {<<NameOrder[i]>> : i \in 1..Len(NameOrder)}
JsonMaps(vals) == UNION {[d -> vals] : d \in SUBSET JsonKeys}
NestedValues == {JNumber("1"), JArray(<<JNumber("1")>>)}
TopValues == {JNumber("1"), JNumber("2"), JArray(<<JNumber("1")>>), JArray(<<JNumber("2")>>)}
                 \cup {JObject(m) : m \in JsonMaps(NestedValues)}
JsonDocs == {JObject(m) : m \in JsonMaps(TopValues)}

InitValidate ==
    /\ pc = "call"
    /\ request_object \in {[body |-> None]} \cup {[body |-> Some(d)] : d \in JsonDocs}
    /\ body \in {NotJson, JNumber("1")} \cup JsonDocs
    /\ outcome = None
    /\ IdleFlatten /\ IdleSynth /\ IdleEcho

Validate ==
    /\ pc = "call"
    /\ LET r == validate_request(request_object, body)
       IN  IF r.panic
           THEN pc' = "panicked" /\ outcome' = None
           ELSE pc' = "validated" /\ outcome' = Some(r.v)
    /\ UNCHANGED <<request_object, body, flattenVars, synthVars, echoVars>>

NextValidate == Validate

SpecValidate == InitValidate /\ [][NextValidate]_vars

\* the names of the keys of exp that act lacks, at the top level and inside entries
\* that are objects in both
RECURSIVE MissingNames(_, _)
MissingNames(exp, act) ==
    {k \in DOMAIN exp : k \notin DOMAIN act} \cup
    UNION {MissingNames(exp[k].m, act[k].m) :
               k \in {x \in DOMAIN exp \cap DOMAIN act :
                          exp[x].t = "object" /\ act[x].t = "object"}}
RECURSIVE MissingCount(_, _)
SumOver(S, f(_)) ==
    LET RECURSIVE Sum(_)
        Sum(T) == IF T = {} THEN 0
                  ELSE LET x == CHOOSE x \in T : TRUE IN f(x) + Sum(T \ {x})
    IN  Sum(S)
MissingCount(exp, act) ==
    Cardinality({k \in DOMAIN exp : k \notin DOMAIN act}) +
    SumOver({x \in DOMAIN exp \cap DOMAIN act : exp[x].t = "object" /\ act[x].t = "object"},
            LAMBDA k : MissingCount(exp[k].m, act[k].m))

\* the names an error message lists after its prefix
MessageNames(message) ==
    {<<message[i]>> : i \in {j \in 2..Len(message) : message[j] # ", "}}

\* C6: for expected and actual JSON objects, validate_request fails exactly when some
\* key of the expected object is absent from the actual one, at the top level or inside
\* an entry that is an object in both; the message is "Missing keys: " followed by the
\* local names of those keys, separated by ", "; extra keys, differing scalars, type
\* mismatches and array contents never make it fail.
C6_FailsExactlyOnMissingKeys ==
    pc = "validated" =>
        LET exp == request_object.body.v.m
            act == body.m
        IN  /\ outcome.v.ok <=> MissingNames(exp, act) = {}
            /\ ~outcome.v.ok =>
                   /\ outcome.v.error_message[1] = "Missing keys: "
                   /\ MessageNames(outcome.v.error_message) = MissingNames(exp, act)
                   /\ Len(outcome.v.error_message) = 2 * MissingCount(exp, act)

\* C6's case: the only missing key is a nested one, the actual body has an extra key
\* and a value of another type, and validation has failed
C6_Witness ==
    /\ pc = "validated"
    /\ ~outcome.v.ok
    /\ DOMAIN request_object.body.v.m = {<<"a">>}
    /\ DOMAIN body.m = {<<"a">>, <<"b">>}
    /\ outcome.v.error_message = <<"Missing keys: ", "b">>

\* C6's other case: extra keys and differing values only, and validation has passed
C6_WitnessPass ==
    /\ pc = "validated"
    /\ outcome.v.ok
    /\ request_object.body.v.m = (<<"a">> :> JNumber("1"))
    /\ body.m = (<<"a">> :> JArray(<<JNumber("2")>>)) @@ (<<"b">> :> JNumber("1"))

(***************************************************************************)
(* get_body_by_object_schema and create_valid_json_from_hashmap as the     *)
(* functions the request handler calls.                                    *)
(***************************************************************************)
\* lines 20-77: the while loop run to its end
RECURSIVE while_loop(_, _, _)
next_iteration(st, entropy) ==
    IF st.panic THEN Panic ELSE while_loop(st.hash_map, st.stack, entropy)
while_loop(m, s, entropy) ==
    IF s = <<>> THEN Ok(m) ELSE next_iteration(LoopBody(m, s, entropy), entropy)

get_body_by_object_schema(obj, entropy) ==
    while_loop(EmptyMap, << << <<>>, obj >> >>, entropy)

RECURSIVE SetToSeq(_)
SetToSeq(S) ==
    IF S = {} THEN <<>>
    ELSE LET x == CHOOSE x \in S : TRUE IN <<x>> \o SetToSeq(S \ {x})
Reverse(seq) == [i \in 1..Len(seq) |-> seq[Len(seq) + 1 - i]]

\* the order a HashMap yields its keys in: one order or its reverse, which is every
\* order for the tables of at most two keys the handler's schemas give
Hashers == {"forward", "backward"}
iteration_order(map, hasher) ==
    IF hasher = "forward" THEN SetToSeq(DOMAIN map) ELSE Reverse(SetToSeq(DOMAIN map))

\* lines 148-151: the for loop over the keys in the given order
RECURSIVE insert_all(_, _, _)
insert_rest(r, order, map) ==
    IF r.panic THEN Panic ELSE insert_all(r.v, Tail(order), map)
insert_all(root_map, order, map) ==
    IF order = <<>> THEN Ok(root_map)
    ELSE insert_rest(insert_nested_value(root_map, split_dot(Head(order)), map[Head(order)]),
                     order, map)

create_valid_json_from_hashmap(map, hasher) ==
    insert_all(EmptyMap, iteration_order(map, hasher), map)

\* serde_json::to_string(&map) of an object; from_str gives the object back
to_string(map) == JObject(map)

(***************************************************************************)
(* The request handler (main.rs).                                          *)
(***************************************************************************)
RequestObject(b) == [body |-> b]
ResponseObject(r, code) == [response |-> r, status_code |-> code]

\* a panic of r unwinds; otherwise F goes on with what r returned
AndThen(r, F(_)) == IF r.panic THEN Panic ELSE F(r.v)

\* lines 73-79 and 99-102: the mock body of a schema as JSON text
mock_body(obj, entropy, hasher) ==
    AndThen(get_body_by_object_schema(obj, entropy),
            LAMBDA flat : AndThen(create_valid_json_from_hashmap(flat, hasher),
                                  LAMBDA map : Ok(to_string(map))))

\* composite_objects.rs lines 68-84
create_request_object_by_object_schema(object_schema, entropy, hasher) ==
    IF object_schema.some
    THEN AndThen(mock_body(object_schema.v, entropy, hasher),
                 LAMBDA text : Ok(RequestObject(Some(text))))
    ELSE Ok(RequestObject(None))

\* composite_objects.rs lines 94-112
create_response_object_by_object_schema(object_schema, entropy, hasher) ==
    IF object_schema.some
    THEN AndThen(mock_body(object_schema.v, entropy, hasher),
                 LAMBDA text : Ok(ResponseObject(Some(text), Some(200))))
    ELSE Ok(ResponseObject(None, None))

\* What an operation declares for its 200 response and for its request body.
No200 == [kind |-> "no_200"]
NoJsonContent == [kind |-> "no_json"]
NoSchema == [kind |-> "no_schema"]
WithSchema(ref) == [kind |-> "schema", ref |-> ref]
NoRequestBody == [kind |-> "none"]
UnresolvableBody == [kind |-> "unresolvable"]
Operation(request_body, responses) ==
    [request_body |-> request_body, responses |-> responses]

\* main.rs lines 46-66: each `?` returns None from the function
get_response_object_schema_by_operation(operation, entropy, hasher) ==
    LET content == operation.responses
    IN  IF content.kind \in {"no_json", "no_schema"} THEN Ok(None)
        ELSE LET object_schema ==
                     IF content.kind = "schema" /\ content.ref.ok
                     THEN Some(content.ref.obj) ELSE None
             IN  AndThen(create_response_object_by_object_schema(object_schema,
                                                                 entropy, hasher),
                         LAMBDA response_object : Ok(Some(response_object)))

\* main.rs lines 68-91
get_request_object_schema_by_operation(operation, entropy, hasher) ==
    LET requests == operation.request_body
    IN  IF requests.kind \in {"none", "no_json", "no_schema"} THEN Ok(None)
        ELSE LET object_schema ==
                     IF requests.kind = "schema" /\ requests.ref.ok
                     THEN Some(requests.ref.obj) ELSE None
             IN  AndThen(create_request_object_by_object_schema(object_schema,
                                                                entropy, hasher),
                         LAMBDA made : Ok(Some(made)))

Path(path_str, method, response_object, made_request) ==
    [path |-> path_str, method |-> method,
     response_object |-> response_object, request_object |-> made_request]

\* the paths of the spec in the order its map iterates them
PathOrder == <<"/x", "/y">>
MethodOrder == <<"get", "post">>
MethodOf(field) == IF field = "get" THEN "GET" ELSE "POST"

\* main.rs lines 102-130: the for loop from the i-th path on, j being get or post
RECURSIVE path_loop(_, _, _, _, _, _)
path_loop(spec, i, j, acc, entropy, hasher) ==
    IF i > Len(PathOrder) THEN Ok(acc)
    ELSE IF j > Len(MethodOrder) THEN path_loop(spec, i + 1, 1, acc, entropy, hasher)
    ELSE LET operation == spec[PathOrder[i]][MethodOrder[j]]
         IN  IF ~operation.some THEN path_loop(spec, i, j + 1, acc, entropy, hasher)
             ELSE AndThen(
                      get_response_object_schema_by_operation(operation.v, entropy, hasher),
                      LAMBDA response_object :
                          AndThen(get_request_object_schema_by_operation(operation.v,
                                                                         entropy, hasher),
                                  LAMBDA made_request :
                                      path_loop(spec, i, j + 1,
                                                Append(acc, Path(PathOrder[i],
                                                                 MethodOf(MethodOrder[j]),
                                                                 response_object,
                                                                 made_request)),
                                                entropy, hasher)))

get_paths_from_spec(spec, entropy, hasher) == path_loop(spec, 1, 1, <<>>, entropy, hasher)

TextBody(text) == [kind |-> "text", v |-> text]
JsonBody(json) == [kind |-> "json", v |-> json]
EmptyBody == [kind |-> "empty", v |-> <<>>]
Reply(status, content_type, b) == [status |-> status, content_type |-> content_type, body |-> b]
JsonReply(b) == Reply(200, Some("application/json"), b)
NotFound == Reply(404, None, EmptyBody)

(***************************************************************************)
(* SpecEcho: one request through echo, against the spec on disk.           *)
(***************************************************************************)
Prop(k, node) == (k :> Resolvable(node))
GoodSchema == ObjectOf(Prop("a", IntLeaf), {"a"}, <<>>)
TwoKeySchema == ObjectOf(Prop("a", IntLeaf) @@ Prop("b", IntLeaf), {"a", "b"}, <<>>)
\* the schemas whose synthesis fails
UnresolvableRefSchema == ObjectOf(("a" :> Dangling), {"a"}, <<>>)
MissingTypeSchema == ObjectOf(Prop("a", NoTypeTag), {"a"}, <<>>)
UnsupportedTypeSchema == Leaf(Multiple({"string", "null"}), None, <<>>)
SingleEnumSchema == ObjectOf(Prop("a", IntLeaf), {"a"}, <<"e1">>)
MalformedSchemas == {UnresolvableRefSchema, MissingTypeSchema,
                     UnsupportedTypeSchema, SingleEnumSchema}
RouteSchemas == {GoodSchema, TwoKeySchema} \cup MalformedSchemas

ResponseDecls == {No200, NoJsonContent, NoSchema, WithSchema(Dangling)}
                     \cup {WithSchema(Resolvable(sch)) : sch \in RouteSchemas}
RequestDecls == {NoRequestBody, UnresolvableBody, NoJsonContent, NoSchema,
                 WithSchema(Dangling)}
                    \cup {WithSchema(Resolvable(sch)) : sch \in RouteSchemas}
GetOperations == {Operation(NoRequestBody, r) : r \in ResponseDecls}
PostOperations ==
    {Operation(q, r) : q \in RequestDecls,
                       r \in {No200, NoJsonContent, WithSchema(Resolvable(GoodSchema))}}
GoodGet == Operation(NoRequestBody, WithSchema(Resolvable(GoodSchema)))
MalformedGets == {Operation(NoRequestBody, WithSchema(Resolvable(sch))) :
                      sch \in MalformedSchemas}
Optional(S) == {None} \cup {Some(x) : x \in S}
PathItem(get, post) == [get |-> get, post |-> post]
ApiSpecs ==
    {("/x" :> PathItem(g, p)) @@ ("/y" :> PathItem(h, None)) :
         g \in Optional(GetOperations), p \in Optional(PostOperations),
         h \in Optional({GoodGet, Operation(NoRequestBody,
                                            WithSchema(Resolvable(UnresolvableRefSchema)))})}

RequestBodies ==
    {NotJson, JObject(EmptyMap), JObject((<<"a">> :> JNumber("5"))),
     JObject((<<"a">> :> JNumber("1")) @@ (<<"b">> :> JString("s")))}
Requests == [method : {"GET", "POST", "PUT"}, path : {"/x", "/y", "/z"}, body : RequestBodies]

InitEcho ==
    /\ pc = "start"
    /\ api_spec \in ApiSpecs
    /\ req \in Requests
    /\ paths = <<>>
    /\ cursor = 0
    /\ response = None
    /\ request_object = Idle /\ body = Idle /\ outcome = None
    /\ IdleFlatten /\ IdleSynth

Matches(p) == req.method = p.method /\ req.path = p.path

\* the paths are built, or a panic in the synthesis unwinds the handler
PathsBuilt(got) ==
    IF got.panic
    THEN pc' = "panicked" /\ paths' = <<>> /\ cursor' = 0
    ELSE pc' = "for" /\ paths' = got.v /\ cursor' = 1

\* the match on validate_request's result
Validated(r) ==
    IF r.panic
    THEN pc' = "panicked" /\ outcome' = outcome /\ response' = response
    ELSE IF r.v.ok
    THEN pc' = "validated" /\ outcome' = Some(r.v) /\ response' = response
    ELSE /\ pc' = "replied"
         /\ outcome' = Some(r.v)
         /\ response' = Some(JsonReply(TextBody(r.v.error_message)))

\* lines 138-153: the spec is read and every route's bodies are synthesized
EchoGetPaths ==
    /\ pc = "start"
    /\ \E e \in Entropy, hasher \in Hashers :
          PathsBuilt(get_paths_from_spec(api_spec, [n \in Names |-> e], hasher))
    /\ UNCHANGED <<api_spec, req, response, flattenVars, synthVars, validateVars>>

\* lines 155-156: the route at the cursor is not the requested one
EchoSkip ==
    /\ pc = "for"
    /\ cursor <= Len(paths)
    /\ ~Matches(paths[cursor])
    /\ cursor' = cursor + 1
    /\ UNCHANGED <<pc, api_spec, req, paths, response, flattenVars, synthVars, validateVars>>

\* lines 157-169: a POST is validated; a failure is answered at once
EchoValidate ==
    /\ pc = "for"
    /\ cursor <= Len(paths)
    /\ Matches(paths[cursor])
    /\ paths[cursor].method = "POST"
    /\ Validated(IF paths[cursor].request_object.some
                 THEN validate_request(paths[cursor].request_object.v, req.body)
                 ELSE Panic)
    /\ UNCHANGED <<api_spec, req, paths, cursor, request_object, body,
                   flattenVars, synthVars>>

\* lines 170-182: the route's response object, if it has one, is the reply; if it has
\* none the loop goes on
EchoRespond ==
    /\ pc \in {"for", "validated"}
    /\ cursor <= Len(paths)
    /\ Matches(paths[cursor])
    /\ pc = "for" => paths[cursor].method # "POST"
    /\ LET p == paths[cursor]
       IN  IF p.response_object.some
           THEN /\ pc' = "replied"
                /\ cursor' = cursor
                /\ response' = Some(JsonReply(
                                  IF p.response_object.v.response.some
                                  THEN JsonBody(p.response_object.v.response.v)
                                  ELSE TextBody(<<"No response">>)))
           ELSE pc' = "for" /\ cursor' = cursor + 1 /\ response' = response
    /\ UNCHANGED <<api_spec, req, paths, flattenVars, synthVars, validateVars>>

\* lines 184-186: no route answered
EchoNotFound ==
    /\ pc = "for"
    /\ cursor > Len(paths)
    /\ pc' = "replied"
    /\ response' = Some(NotFound)
    /\ UNCHANGED <<api_spec, req, paths, cursor, flattenVars, synthVars, validateVars>>

NextEcho == EchoGetPaths \/ EchoSkip \/ EchoValidate \/ EchoRespond \/ EchoNotFound

SpecEcho == InitEcho /\ [][NextEcho]_vars

\* the operation the spec declares for the request's method and path, if any
DeclaredOperation ==
    IF req.path \in DOMAIN api_spec /\ req.method \in {"GET", "POST"}
    THEN api_spec[req.path][IF req.method = "GET" THEN "get" ELSE "post"]
    ELSE None
HasNoJsonResponseSchema(operation) ==
    operation.responses.kind \in {"no_200", "no_json", "no_schema"}
PassedValidation == req.method = "POST" => (outcome.some /\ outcome.v.ok)

\* C7: a request that matches a declared GET or POST operation and passes request
\* validation, the operation having no JSON response schema (no 200 response, a 200
\* response without application/json content, or content without a schema), is
\* answered 200 with the body "No response", never 404.
C7_NoSchemaRepliesNoResponse ==
    (/\ pc = "replied"
     /\ DeclaredOperation.some
     /\ HasNoJsonResponseSchema(DeclaredOperation.v)
     /\ PassedValidation)
        => response = Some(JsonReply(TextBody(<<"No response">>)))

\* the reply a served route owes: its synthesized body, or "No response"
MockReplyOf(p) ==
    JsonReply(IF p.response_object.some /\ p.response_object.v.response.some
              THEN JsonBody(p.response_object.v.response.v)
              ELSE TextBody(<<"No response">>))
RouteOf(method, path_str) ==
    CHOOSE i \in 1..Len(paths) : paths[i].method = method /\ paths[i].path = path_str

\* C8: a POST to a declared POST route is answered only after its body was validated
\* against the synthesized request body; a failed validation is answered 200,
\* application/json, with the validator's "Missing keys: ..." message and not with the
\* synthesized response; a passed validation is answered with the route's mock response.
C8_ValidatedBeforeReply ==
    (pc = "replied" /\ req.method = "POST" /\ DeclaredOperation.some) =>
        /\ outcome.some
        /\ ~outcome.v.ok =>
               /\ response = Some(JsonReply(TextBody(outcome.v.error_message)))
               /\ outcome.v.error_message[1] = "Missing keys: "
        /\ outcome.v.ok => response = Some(MockReplyOf(paths[RouteOf("POST", req.path)]))

\* C8 for the routes that have a response object: the part of C8 that holds
C8_ValidatedBeforeReplyWhereServed ==
    (/\ pc = "replied" /\ req.method = "POST" /\ DeclaredOperation.some
     /\ DeclaredOperation.v.responses.kind \notin {"no_json", "no_schema"}) =>
        /\ outcome.some
        /\ ~outcome.v.ok =>
               /\ response = Some(JsonReply(TextBody(outcome.v.error_message)))
               /\ outcome.v.error_message[1] = "Missing keys: "
        /\ outcome.v.ok => response = Some(MockReplyOf(paths[RouteOf("POST", req.path)]))

\* C9: with one malformed route (GET /y, whose schema has an unresolvable reference)
\* and one well-formed route (GET /x) in the spec, a request to the well-formed route
\* is not aborted and receives that route's mock response.
C9_MalformedRouteLeavesOthersServing ==
    (/\ req.method = "GET" /\ req.path = "/x"
     /\ api_spec["/x"].get = Some(GoodGet)
     /\ api_spec["/x"].post = None
     /\ api_spec["/y"].get.some
     /\ api_spec["/y"].get.v # GoodGet)
        => /\ pc # "panicked"
           /\ pc = "replied" =>
                  response = Some(JsonReply(JsonBody(
                                 JObject((<<"a">> :> JNumber("1"))))))

====
